---- MODULE Spec2Model ----
(***************************************************************************)
(* Model of adherence.py: the pathway-adherence scoring kernel.            *)
(*                                                                         *)
(* Python strings are sequences of one-character strings.  Python floats   *)
(* are exact rationals <<numerator, denominator>> in lowest terms with a   *)
(* positive denominator; every value the kernel computes is a quotient of  *)
(* small integers.  A Python exception is a record field `raised`.         *)
(***************************************************************************)
EXTENDS Integers, Sequences, FiniteSets, TLC

(***************************************************************************)
(* Bounds of the model.                                                    *)
(***************************************************************************)
\* longest procedure-code string (in characters) passed to an evaluator
MaxLen == 5
\* longest pathway (in steps) whose projected sequences are enumerated in
\* full by the alignment harness
MaxSteps == 3
\* most observed codes projected by the alignment harness
MaxProj == 3

(***************************************************************************)
(* Arithmetic.                                                             *)
(***************************************************************************)
Max(a, b) == IF a >= b THEN a ELSE b

Abs(a) == IF a < 0 THEN 0 - a ELSE a

RECURSIVE GCD(_, _)
GCD(a, b) == IF b = 0 THEN a ELSE GCD(b, a % b)

\* the float n/d
Rat(n, d) ==
    LET g == GCD(Abs(n), d)
    IN  IF n = 0 THEN <<0, 1>> ELSE <<n \div g, d \div g>>

RMul(x, y) == Rat(x[1] * y[1], x[2] * y[2])

RDivInt(x, k) == Rat(x[1], x[2] * k)

RLess(x, y) == x[1] * y[2] < y[1] * x[2]

Zero == <<0, 1>>

Sentinel == <<0 - 1, 1>>

\* round(x, 3): nearest multiple of 1/1000, ties to the even multiple
Round3(x) ==
    LET n == 1000 * x[1]
        d == x[2]
        q == n \div d
        r == n % d
        k == IF 2 * r < d THEN q
             ELSE IF 2 * r > d THEN q + 1
             ELSE IF q % 2 = 0 THEN q ELSE q + 1
    IN  Rat(k, 1000)

(***************************************************************************)
(* Strings.                                                                *)
(***************************************************************************)
Digits == <<"0", "1", "2", "3", "4", "5", "6", "7", "8", "9">>

DigitSet == {Digits[i] : i \in 1..10}

\* int(c) for a one-character digit string
IntOfChar(c) == (CHOOSE i \in 1..10 : Digits[i] = c) - 1

\* str(n) for n >= 0
RECURSIVE Str(_)
Str(n) == IF n < 10 THEN <<Digits[n + 1]>>
          ELSE Str(n \div 10) \o <<Digits[(n % 10) + 1]>>

\* c in s, for a character c and a string s
CharIn(c, s) == \E i \in 1..Len(s) : s[i] = c

Chars(s) == {s[i] : i \in 1..Len(s)}

\* s.isdigit()
IsDigit(s) == Len(s) > 0 /\ \A i \in 1..Len(s) : s[i] \in DigitSet

\* s.lstrip('0')
RECURSIVE LStrip0(_)
LStrip0(s) == IF Len(s) > 0 /\ s[1] = "0" THEN LStrip0(Tail(s)) ELSE s

\* s.split(' '): the pieces between single blanks, empty pieces kept
RECURSIVE SplitFrom(_, _, _)
SplitFrom(s, i, cur) ==
    IF i > Len(s) THEN <<cur>>
    ELSE IF s[i] = " " THEN <<cur>> \o SplitFrom(s, i + 1, <<>>)
    ELSE SplitFrom(s, i + 1, Append(cur, s[i]))

Split(s) == SplitFrom(s, 1, <<>>)

\* l[:-1]
DropLast(l) == IF Len(l) = 0 THEN <<>> ELSE SubSeq(l, 1, Len(l) - 1)

\* procedure_cds.split(' ')[:-1]
ParseCodes(procedure_cds) == DropLast(Split(procedure_cds))

(***************************************************************************)
(* The kernel's functions.  A care pathway (a dict in authored order) is a *)
(* sequence of accepted-code collections; a step's key is its position.    *)
(***************************************************************************)
\* get_target_sequence: loop of lines 83-85, steps k+1 = 1..n
RECURSIVE TargetUpTo(_)
TargetUpTo(n) == IF n = 0 THEN <<"0">> ELSE TargetUpTo(n - 1) \o Str(n)

get_target_sequence(carepath) ==
    [target  |-> TargetUpTo(Len(carepath)),
     mapping |-> [k \in 1..Len(carepath) |-> Str(k)]]

\* get_reduced_str
RECURSIVE ReduceFrom(_, _, _)
ReduceFrom(input_str, i, new) ==
    IF i > Len(input_str) THEN new
    ELSE ReduceFrom(input_str, i + 1,
                    IF CharIn(input_str[i], new) THEN new
                    ELSE Append(new, input_str[i]))

get_reduced_str(input_str) == ReduceFrom(input_str, 1, <<>>)

\* the first step in authored order whose collection holds the procedure,
\* 0 when there is none (inner loop of lines 107-110)
FirstStep(procedure, carepath) ==
    IF \E k \in 1..Len(carepath) : procedure \in carepath[k]
    THEN CHOOSE k \in 1..Len(carepath) :
            /\ procedure \in carepath[k]
            /\ \A j \in 1..(k - 1) : procedure \notin carepath[j]
    ELSE 0

\* the symbols one procedure appends to pcd_seq in exact mode
ExactSymbols(procedure, carepath, mapping) ==
    LET k == FirstStep(procedure, carepath)
    IN  IF k = 0 THEN <<>> ELSE mapping[k]

RECURSIVE ProjectFrom(_, _, _, _, _)
ProjectFrom(procedures, i, carepath, mapping, pcd_seq) ==
    IF i > Len(procedures) THEN pcd_seq
    ELSE ProjectFrom(procedures, i + 1, carepath, mapping,
                     pcd_seq \o ExactSymbols(procedures[i], carepath, mapping))

\* a projector that treats an empty code list as match fraction 0
FractionNoRaise(pcd_seq, procedures) ==
    [raised |-> FALSE, pcd_seq |-> pcd_seq,
     frac |-> IF Len(procedures) = 0 THEN Zero
              ELSE Rat(Len(pcd_seq) - 1, Len(procedures))]

\* the returned pair, or ZeroDivisionError at line 112
Fraction(pcd_seq, procedures) ==
    IF Len(procedures) = 0
    THEN [raised |-> TRUE, pcd_seq |-> pcd_seq, frac |-> Zero]
    ELSE [raised |-> FALSE, pcd_seq |-> pcd_seq,
          frac |-> Rat(Len(pcd_seq) - 1, Len(procedures))]

construct_pcd_seq(procedures, carepath, mapping) ==
    Fraction(ProjectFrom(procedures, 1, carepath, mapping, <<"0">>), procedures)

\* a scoring dictionary with the scores of identical and adjacent steps
\* exchanged
make_scoring_dict_swapped(target_str) ==
    [p \in Chars(target_str) \X Chars(target_str) |->
        IF p[1] = p[2]
        THEN IF p[1] # "0" /\ p[2] # "0" THEN 5 ELSE 1000
        ELSE IF p[1] = "0" \/ p[2] = "0" THEN 0 - 1000
        ELSE IF Abs(IntOfChar(p[1]) - IntOfChar(p[2])) = 1 THEN 10
        ELSE 0]

\* make_scoring_dict: keys are the pairs of characters of target_str
make_scoring_dict(target_str) ==
    [p \in Chars(target_str) \X Chars(target_str) |->
        IF p[1] = p[2]
        THEN IF p[1] # "0" /\ p[2] # "0" THEN 10 ELSE 1000
        ELSE IF p[1] = "0" \/ p[2] = "0" THEN 0 - 1000
        ELSE IF Abs(IntOfChar(p[1]) - IntOfChar(p[2])) = 1 THEN 5
        ELSE 0]

(***************************************************************************)
(* Bio.pairwise2.align.globaldd with score_only: Gotoh's algorithm as      *)
(* pairwise2 programs it.  sequenceA runs down the rows, sequenceB across  *)
(* the columns; a row of the score matrix is a sequence indexed from 1, so *)
(* score_matrix[r][c] is row r's element c + 1.                            *)
(***************************************************************************)
\* pairwise2.dictionary_match (symmetric)
dictionary_match(score_dict, charA, charB) ==
    IF <<charA, charB>> \in DOMAIN score_dict
    THEN score_dict[<<charA, charB>>]
    ELSE score_dict[<<charB, charA>>]

\* pairwise2.calc_affine_penalty, penalize_extend_when_opening = 0
calc_affine_penalty(length, open, extend) ==
    IF length <= 0 THEN 0 ELSE open + extend * length - extend

\* one row of the matrix, column by column; acc holds the row so far, the
\* running row_score and the col_score list
RECURSIVE FillRow(_, _, _, _, _, _, _)
FillRow(A, B, scoring, pen, row, prev, acc) ==
    LET col == Len(acc.cur)
    IN  IF col > Len(B) THEN acc
        ELSE
          LET nogap_score == prev[col] + dictionary_match(scoring, A[row], B[col])
              endA == (~pen.end_gaps) /\ row = Len(A)
              row_open == IF endA THEN acc.cur[col] ELSE acc.cur[col] + pen.open_A
              row_extend == IF endA THEN acc.row_score
                            ELSE acc.row_score + pen.extend_A
              row_score == Max(row_open, row_extend)
              endB == (~pen.end_gaps) /\ col = Len(B)
              col_open == IF endB THEN prev[col + 1] ELSE prev[col + 1] + pen.open_B
              col_extend == IF endB THEN acc.col_score[col + 1]
                            ELSE acc.col_score[col + 1] + pen.extend_B
              col_sc == Max(col_open, col_extend)
              best_score == Max(nogap_score, Max(col_sc, row_score))
          IN  FillRow(A, B, scoring, pen, row, prev,
                      [cur       |-> Append(acc.cur, best_score),
                       row_score |-> row_score,
                       col_score |-> [acc.col_score EXCEPT ![col + 1] = col_sc]])

RECURSIVE FillMatrix(_, _, _, _, _, _, _)
FillMatrix(A, B, scoring, pen, row, prev, col_score) ==
    IF row > Len(A) THEN prev[Len(B) + 1]
    ELSE
      LET first == IF pen.end_gaps
                   THEN calc_affine_penalty(row, pen.open_B, pen.extend_B)
                   ELSE 0
          acc == FillRow(A, B, scoring, pen, row, prev,
                         [cur       |-> <<first>>,
                          row_score |-> calc_affine_penalty(row, 2 * pen.open_A,
                                                            pen.extend_A),
                          col_score |-> col_score])
      IN  FillMatrix(A, B, scoring, pen, row + 1, acc.cur, acc.col_score)

\* the best score of a global alignment of sequenceA and sequenceB, both
\* non-empty
globaldd(sequenceA, sequenceB, scoring, open_A, extend_A, open_B, extend_B, penalize_end_gaps) ==
    LET pen == [open_A |-> open_A, extend_A |-> extend_A,
                open_B |-> open_B, extend_B |-> extend_B,
                end_gaps |-> penalize_end_gaps]
        row0 == [c \in 1..(Len(sequenceB) + 1) |->
                    IF penalize_end_gaps
                    THEN calc_affine_penalty(c - 1, open_A, extend_A) ELSE 0]
        col0 == [c \in 1..(Len(sequenceB) + 1) |->
                    calc_affine_penalty(c - 1, 2 * open_B, extend_B)]
    IN  FillMatrix(sequenceA, sequenceB, scoring, pen, 1, row0, col0)

\* sequence_alignment: the normalised score, or ZeroDivisionError at line
\* 190 when pcd_seq holds the sentinel alone
sequence_alignment(pcd_seq, cp_seq) ==
    LET scoring == make_scoring_dict(cp_seq)
        a == globaldd(cp_seq, pcd_seq, scoring, 0 - 10, 0, 0 - 5, 0 - 1, FALSE)
    IN  IF Len(pcd_seq) - 1 = 0
        THEN [raised |-> TRUE, val |-> Zero]
        ELSE [raised |-> FALSE,
              val |-> RDivInt(Rat(a - 1000, Len(pcd_seq) - 1), 10)]

(***************************************************************************)
(* Category rollup.                                                        *)
(***************************************************************************)
\* get_category_map: every code of every row's range, as a decimal string,
\* mapped to the row's category; a later row overwrites an earlier one
get_category_map(hierarchy) ==
    LET Rows(i) == {r \in 1..Len(hierarchy) :
                        hierarchy[r].Start <= i /\ i <= hierarchy[r].End}
        Covered == {i \in 0..99 : Rows(i) # {}}
        Last(i) == CHOOSE r \in Rows(i) : \A q \in Rows(i) : q <= r
    IN  [c \in {Str(i) : i \in Covered} |->
            hierarchy[Last(CHOOSE i \in Covered : Str(i) = c)].Category]

\* the first step holding a numeric code of category cat, 0 when there is
\* none (loops of lines 159-171)
RollupStep(cat, carepath, cat_map) ==
    LET Hit(k) == \E cp_prcd \in carepath[k] :
                    /\ IsDigit(cp_prcd)
                    /\ LStrip0(cp_prcd) \in DOMAIN cat_map
                    /\ cat = cat_map[LStrip0(cp_prcd)]
    IN  IF \E k \in 1..Len(carepath) : Hit(k)
        THEN CHOOSE k \in 1..Len(carepath) : Hit(k) /\ \A j \in 1..(k - 1) : ~Hit(j)
        ELSE 0

\* the symbols one procedure appends to pcd_seq in rollup mode
RollupSymbols(procedure, carepath, mapping, cat_map) ==
    IF procedure = <<"N", "o", "n", "e">> \/ procedure = <<>> THEN <<>>
    ELSE IF FirstStep(procedure, carepath) # 0
    THEN mapping[FirstStep(procedure, carepath)]
    ELSE IF IsDigit(procedure) /\ LStrip0(procedure) \in DOMAIN cat_map
    THEN LET k == RollupStep(cat_map[LStrip0(procedure)], carepath, cat_map)
         IN  IF k = 0 THEN <<>> ELSE mapping[k]
    ELSE <<>>

RECURSIVE RollupFrom(_, _, _, _, _, _)
RollupFrom(procedures, i, carepath, mapping, cat_map, pcd_seq) ==
    IF i > Len(procedures) THEN pcd_seq
    ELSE RollupFrom(procedures, i + 1, carepath, mapping, cat_map,
                    pcd_seq \o RollupSymbols(procedures[i], carepath, mapping,
                                             cat_map))

construct_rollup_pcd_seq(procedures, carepath, mapping, cat_map) ==
    Fraction(RollupFrom(procedures, 1, carepath, mapping, cat_map, <<"0">>),
             procedures)

(***************************************************************************)
(* The reference data the evaluators read: module globals data and         *)
(* cat_map, supplied by the loader.                                        *)
(***************************************************************************)
\* a code of one character
Code(c) == <<c>>

\* a code of two characters
Code2(c, d) == <<c, d>>

\* a pathway whose steps 1 and 2 take codes 1 and 2, steps 3 to 9 take
\* two-character codes and step 10 takes code 3
LongPathway ==
    <<{Code("1")}, {Code("2")}, {Code2("1", "1")}, {Code2("1", "2")},
      {Code2("1", "3")}, {Code2("2", "1")}, {Code2("2", "2")},
      {Code2("2", "3")}, {Code2("3", "1")}, {Code("3")}>>

\* data[diag_cd][0] for the diagnoses of the registry
data ==
    [d \in {"D1", "D2", "D3"} |->
        CASE d = "D1" -> << <<{Code("1")}, {Code("2")}>>,
                            <<{Code("3")}>>,
                            <<{Code("2")}, {Code("1")}>> >>
          [] d = "D2" -> << LongPathway >>
          [] d = "D3" -> << <<>>,
                            <<{Code("1"), Code("2")}, {Code("2"), Code("3")}>> >>]

hierarchy ==
    << [Start |-> 1, End |-> 1, Category |-> "A"],
       [Start |-> 2, End |-> 3, Category |-> "B"],
       [Start |-> 11, End |-> 13, Category |-> "C"] >>

cat_map == get_category_map(hierarchy)

(***************************************************************************)
(* The evaluators, one candidate pathway per step.                         *)
(***************************************************************************)
VARIABLES
    fn,               \* the function called
    diag_cd,          \* its first argument
    procedure_cds,    \* its second argument
    pc,               \* "call", "loop" (inside the for loop) or "done"
    idx,              \* candidate pathways processed so far
    best_adh,         \* local best_adh
    adherence,        \* local adherence; unbound until first assigned
    target,           \* locals of the last loop body run
    mapping,
    code_list,
    pcd_seq,
    frac,
    reduced_pcd_seq,
    result            \* the value returned

vars == <<fn, diag_cd, procedure_cds, pc, idx, best_adh, adherence, target,
          mapping, code_list, pcd_seq, frac, reduced_pcd_seq, result>>

Evaluators == {"seq_alignment_adherence", "generous_adherence", "rollup_adherence"}

\* the characters of procedure-code strings
Alphabet == {" ", "1", "2", "3"}

RECURSIVE StringsOfLen(_)
StringsOfLen(n) ==
    IF n = 0 THEN {<<>>}
    ELSE {Append(s, c) : s \in StringsOfLen(n - 1), c \in Alphabet}

Strings == UNION {StringsOfLen(n) : n \in 0..MaxLen}

\* diagnosis codes passed by callers: those of the registry and one more
DiagCodes == DOMAIN data \cup {"D9"}

Unbound == [bound |-> FALSE, val |-> Zero]

Bound(v) == [bound |-> TRUE, val |-> v]

\* lines 202-206 and 243-246: the candidate's score in the strict and
\* rollup variants
StrictScore(fr, reduced, tgt) ==
    IF fr # Zero
    THEN LET sa == sequence_alignment(reduced, tgt)
         IN  [raised |-> sa.raised, val |-> RMul(sa.val, fr)]
    ELSE [raised |-> FALSE, val |-> Zero]

\* a loop that keeps the last candidate's score
KeepLast(adh, best) == adh

\* lines 207-208: if adherence > best_adh: best_adh = adherence
KeepBest(adh, best) == IF RLess(best, adh) THEN adh ELSE best

\* lines 198-208: the loop body of seq_alignment_adherence for pathway cp
StrictBody(cp, cds, best) ==
    LET tm == get_target_sequence(cp)
        cl == ParseCodes(cds)
        pr == construct_pcd_seq(cl, cp, tm.mapping)
        red == get_reduced_str(pr.pcd_seq)
        sc == StrictScore(pr.frac, red, tm.target)
        failed == pr.raised \/ sc.raised
    IN  [raised |-> failed, target |-> tm.target, mapping |-> tm.mapping,
         code_list |-> cl,
         pcd_seq |-> pr.pcd_seq, frac |-> pr.frac,
         reduced |-> IF pr.raised THEN <<>> ELSE red,
         adherence |-> IF failed THEN Unbound ELSE Bound(sc.val),
         best_adh |-> IF failed THEN best ELSE KeepBest(sc.val, best)]

\* lines 219-228: the loop body of generous_adherence; adh is the value
\* adherence holds on entry.  Line 227 reads adherence, which raises
\* UnboundLocalError when no pass has assigned it
GenerousBody(cp, cds, best, adh) ==
    LET tm == get_target_sequence(cp)
        cl == ParseCodes(cds)
        pr == construct_pcd_seq(cl, cp, tm.mapping)
        red == get_reduced_str(pr.pcd_seq)
        sa == IF pr.frac # Zero THEN sequence_alignment(red, tm.target)
              ELSE [raised |-> FALSE, val |-> Zero]
        adh1 == IF pr.frac # Zero THEN Bound(sa.val) ELSE adh
        best1 == IF pr.frac # Zero THEN best ELSE Sentinel
        failed == pr.raised \/ sa.raised \/ ~adh1.bound
    IN  [raised |-> failed, target |-> tm.target, mapping |-> tm.mapping,
         code_list |-> cl,
         pcd_seq |-> pr.pcd_seq, frac |-> pr.frac,
         reduced |-> IF pr.raised THEN <<>> ELSE red,
         adherence |-> IF pr.raised \/ sa.raised THEN adh ELSE adh1,
         best_adh |-> IF pr.raised \/ sa.raised THEN best
                      ELSE IF failed THEN best1
                      ELSE KeepBest(adh1.val, best1)]

\* lines 239-241: the loop body of rollup_adherence.  Line 241 calls
\* construct_rollup_pcd_seq2, a name the module never defines: NameError
RollupBody(cp, cds, best) ==
    LET tm == get_target_sequence(cp)
        cl == ParseCodes(cds)
    IN  [raised |-> TRUE, target |-> tm.target, mapping |-> tm.mapping,
         code_list |-> cl,
         pcd_seq |-> <<>>, frac |-> Zero, reduced |-> <<>>,
         adherence |-> Unbound, best_adh |-> best]

Body(f, cp, cds, best, adh) ==
    CASE f = "seq_alignment_adherence" -> StrictBody(cp, cds, best)
      [] f = "generous_adherence" -> GenerousBody(cp, cds, best, adh)
      [] f = "rollup_adherence" -> RollupBody(cp, cds, best)

Init ==
    /\ fn \in Evaluators
    /\ diag_cd \in DiagCodes
    /\ procedure_cds \in Strings
    /\ pc = "call"
    /\ idx = 0
    /\ best_adh = Zero
    /\ adherence = Unbound
    /\ target = <<>>
    /\ mapping = <<>>
    /\ code_list = <<>>
    /\ pcd_seq = <<>>
    /\ frac = Zero
    /\ reduced_pcd_seq = <<>>
    /\ result = Unbound

\* carepaths = data[diag_cd][0]; best_adh = 0.0.  An unknown diagnosis is a
\* KeyError, which the except clause turns into -1.0
Enter ==
    /\ pc = "call"
    /\ fn \in Evaluators
    /\ IF diag_cd \in DOMAIN data
       THEN pc' = "loop" /\ result' = result
       ELSE pc' = "done" /\ result' = Bound(Sentinel)
    /\ best_adh' = Zero
    /\ UNCHANGED <<fn, diag_cd, procedure_cds, idx, adherence, target, mapping,
                   code_list, pcd_seq, frac, reduced_pcd_seq>>

\* one pass of the for loop; an exception ends the call with -1.0
Iterate ==
    /\ pc = "loop"
    /\ idx < Len(data[diag_cd])
    /\ \E b \in {Body(fn, data[diag_cd][idx + 1], procedure_cds, best_adh, adherence)} :
           /\ target' = b.target
           /\ mapping' = b.mapping
           /\ code_list' = b.code_list
           /\ pcd_seq' = b.pcd_seq
           /\ frac' = b.frac
           /\ reduced_pcd_seq' = b.reduced
           /\ adherence' = b.adherence
           /\ best_adh' = b.best_adh
           /\ IF b.raised
              THEN pc' = "done" /\ result' = Bound(Sentinel) /\ idx' = idx
              ELSE pc' = "loop" /\ result' = result /\ idx' = idx + 1
    /\ UNCHANGED <<fn, diag_cd, procedure_cds>>

\* return round(best_adh, 3)
Return ==
    /\ pc = "loop"
    /\ idx = Len(data[diag_cd])
    /\ pc' = "done"
    /\ result' = Bound(Round3(best_adh))
    /\ UNCHANGED <<fn, diag_cd, procedure_cds, idx, best_adh, adherence, target,
                   mapping, code_list, pcd_seq, frac, reduced_pcd_seq>>

Next == Enter \/ Iterate \/ Return

Spec == Init /\ [][Next]_vars

(***************************************************************************)
(* A whole call as a value: the loop run to its end.                       *)
(***************************************************************************)
RECURSIVE RunFrom(_, _, _, _, _, _)
RunStep(f, carepaths, cds, i, b) ==
    IF b.raised THEN Sentinel
    ELSE RunFrom(f, carepaths, cds, i + 1, b.best_adh, b.adherence)

RunFrom(f, carepaths, cds, i, best, adh) ==
    IF i > Len(carepaths) THEN Round3(best)
    ELSE RunStep(f, carepaths, cds, i, Body(f, carepaths[i], cds, best, adh))

Run(f, diag, cds) ==
    IF diag \in DOMAIN data THEN RunFrom(f, data[diag], cds, 1, Zero, Unbound)
    ELSE Sentinel

seq_alignment_adherence(diag, cds) == Run("seq_alignment_adherence", diag, cds)

generous_adherence(diag, cds) == Run("generous_adherence", diag, cds)

rollup_adherence(diag, cds) == Run("rollup_adherence", diag, cds)

(***************************************************************************)
(* sequence_alignment on its own: every reduced projected sequence of up   *)
(* to MaxProj observed codes, for the pathways of 1..MaxSteps steps and    *)
(* for a pathway of ten steps, each step taking one code of its own.       *)
(***************************************************************************)
AlignSteps == (1..MaxSteps) \cup {10}

\* the pathway of n steps whose step k takes the code k alone
UnitPathway(n) == [k \in 1..n |-> {k}]

RECURSIVE Observed(_, _)
Observed(n, len) ==
    IF len = 0 THEN {<<>>}
    ELSE {Append(o, k) : o \in Observed(n, len - 1), k \in 1..n}

AlignInit ==
    /\ fn = "sequence_alignment"
    /\ diag_cd = "D9"
    /\ procedure_cds = <<>>
    /\ pc = "call"
    /\ \E n \in AlignSteps : \E len \in 1..MaxProj : \E o \in Observed(n, len) :
          /\ idx = n
          /\ target = get_target_sequence(UnitPathway(n)).target
          /\ mapping = get_target_sequence(UnitPathway(n)).mapping
          /\ code_list = o
          /\ pcd_seq = construct_pcd_seq(o, UnitPathway(n), mapping).pcd_seq
          /\ frac = construct_pcd_seq(o, UnitPathway(n), mapping).frac
    /\ best_adh = Zero
    /\ adherence = Unbound
    /\ reduced_pcd_seq = <<>>
    /\ result = Unbound

\* lines 201 and 203: reduce the projected sequence and align it
Align ==
    /\ pc = "call"
    /\ fn = "sequence_alignment"
    /\ \E red \in {get_reduced_str(pcd_seq)} :
       \E sa \in {sequence_alignment(red, target)} :
          /\ reduced_pcd_seq' = red
          /\ adherence' = IF sa.raised THEN Unbound ELSE Bound(sa.val)
          /\ pc' = "done"
    /\ UNCHANGED <<fn, diag_cd, procedure_cds, idx, best_adh, target, mapping,
                   code_list, pcd_seq, frac, result>>

AlignNext == Align

SpecAlign == AlignInit /\ [][AlignNext]_vars

(***************************************************************************)
(* Vocabulary of the properties.                                           *)
(***************************************************************************)
Known == diag_cd \in DOMAIN data

Pathways == data[diag_cd]

Parsed == ParseCodes(procedure_cds)

\* the pathway the last loop body ran on (an exception leaves idx behind)
LastPathway ==
    Pathways[IF pc = "done" /\ idx < Len(Pathways) THEN idx + 1 ELSE idx]

\* a loop body has run in an evaluator
BodyRan == fn \in Evaluators /\ Known /\ target # <<>>

\* x <= y for rationals
RLeq(x, y) == x[1] * y[2] <= y[1] * x[2]

\* the greatest element of a non-empty set of rationals
RSetMax(S) == CHOOSE x \in S : \A y \in S : RLeq(y, x)

\* alignment(reduced, target) * match_fraction, 0 at match fraction 0
CandidateScore(cp, cds) ==
    LET tm == get_target_sequence(cp)
        pr == construct_pcd_seq(ParseCodes(cds), cp, tm.mapping)
    IN  IF pr.frac = Zero THEN Zero
        ELSE RMul(sequence_alignment(get_reduced_str(pr.pcd_seq), tm.target).val,
                  pr.frac)

\* the same with rollup projection
RollupCandidateScore(cp, cds) ==
    LET tm == get_target_sequence(cp)
        pr == construct_rollup_pcd_seq(ParseCodes(cds), cp, tm.mapping, cat_map)
    IN  IF pr.frac = Zero THEN Zero
        ELSE RMul(sequence_alignment(get_reduced_str(pr.pcd_seq), tm.target).val,
                  pr.frac)

\* a candidate evaluated on its own, with fresh locals, raises nothing
Evaluable(f, cp, cds) == ~Body(f, cp, cds, Zero, Unbound).raised

\* a numeric code in no step's collection whose category is that of a
\* numeric code of some step
RollupOnly(procedure, cp) ==
    /\ FirstStep(procedure, cp) = 0
    /\ IsDigit(procedure)
    /\ LStrip0(procedure) \in DOMAIN cat_map
    /\ RollupStep(cat_map[LStrip0(procedure)], cp, cat_map) # 0

\* the observed codes that some step of cp takes
Matched(procedures, cp) ==
    {i \in 1..Len(procedures) : FirstStep(procedures[i], cp) # 0}

C2_SentinelOnlyIfNoCandidate ==
    (/\ pc = "done"
     /\ fn \in Evaluators
     /\ Known
     /\ \E k \in 1..Len(Pathways) : Evaluable(fn, Pathways[k], procedure_cds))
        => result # Bound(Sentinel)

(***************************************************************************)
(* C3.  For the same diagnosis and procedure-code string the strict        *)
(* variant returns at most what the generous variant returns; stated here  *)
(* for pathways of fewer than ten steps and code lists of non-empty codes. *)
(***************************************************************************)
C3_StrictAtMostGenerous ==
    (/\ pc = "done"
     /\ fn = "seq_alignment_adherence"
     /\ Known
     /\ \A k \in 1..Len(Pathways) : Len(Pathways[k]) < 10
     /\ Parsed # <<>>
     /\ \A i \in 1..Len(Parsed) : Parsed[i] # <<>>)
        => RLeq(result.val, generous_adherence(diag_cd, procedure_cds))

(***************************************************************************)
(* C4.  In the strict variant, for a known diagnosis and a non-empty       *)
(* parsed code list, the running best after each candidate is the maximum  *)
(* of the scores of the candidates processed so far, it never decreases,   *)
(* and the value returned is the maximum over all candidates, rounded.     *)
(***************************************************************************)
C4_State ==
    (fn = "seq_alignment_adherence" /\ Known /\ Parsed # <<>>)
        => /\ (pc = "loop" /\ idx >= 1)
                => best_adh = RSetMax({CandidateScore(Pathways[j], procedure_cds) :
                                          j \in 1..idx})
           /\ pc = "done"
                => result = Bound(Round3(RSetMax(
                        {CandidateScore(Pathways[j], procedure_cds) :
                            j \in 1..Len(Pathways)})))

C4_Step == fn = "seq_alignment_adherence" => RLeq(best_adh, best_adh')

C4_StrictKeepsMaximum == [](C4_State) /\ [][C4_Step]_vars

C4_Witness ==
    /\ pc = "done"
    /\ fn = "seq_alignment_adherence"
    /\ Known
    /\ \E j, k \in 1..Len(Pathways) :
          /\ j < k
          /\ RLess(Zero, CandidateScore(Pathways[k], procedure_cds))
          /\ RLess(CandidateScore(Pathways[k], procedure_cds),
                   CandidateScore(Pathways[j], procedure_cds))
          /\ result = Bound(Round3(CandidateScore(Pathways[j], procedure_cds)))

(***************************************************************************)
(* C5.  In the generous variant, once a candidate with match fraction zero *)
(* has been processed the running best is -1.0: no score computed for an   *)
(* earlier candidate raises it.                                            *)
(***************************************************************************)
C5_ZeroFractionLeavesSentinel ==
    (/\ fn = "generous_adherence"
     /\ pc = "loop"
     /\ idx >= 1
     /\ frac = Zero)
        => best_adh = Sentinel

(***************************************************************************)
(* C6.  The rollup variant accepts a numeric code that no step takes but   *)
(* whose category is that of a numeric code of some step, and returns the  *)
(* computed score: the maximum over the candidates of alignment(reduced,   *)
(* target) * match_fraction under rollup projection, rounded.              *)
(***************************************************************************)
C6_RollupReturnsScore ==
    (/\ pc = "done"
     /\ fn = "rollup_adherence"
     /\ Known
     /\ \E k \in 1..Len(Pathways) : \E i \in 1..Len(Parsed) :
            RollupOnly(Parsed[i], Pathways[k]))
        => result = Bound(Round3(RSetMax(
                {Zero} \cup {RollupCandidateScore(Pathways[j], procedure_cds) :
                                j \in 1..Len(Pathways)})))

(***************************************************************************)
(* C7.  For a pathway of N steps the target sequence has exactly N+1       *)
(* symbols, and step k has a single symbol of its own, the one at position *)
(* k of the target after the sentinel.                                     *)
(***************************************************************************)
C7_TargetHasOneSymbolPerStep ==
    BodyRan =>
        /\ Len(target) = Len(LastPathway) + 1
        /\ target[1] = "0"
        /\ \A k \in 1..Len(LastPathway) :
              /\ Len(mapping[k]) = 1
              /\ \A j \in 1..Len(LastPathway) : j # k => mapping[j] # mapping[k]
              /\ k + 1 <= Len(target)
              /\ <<target[k + 1]>> = mapping[k]

(***************************************************************************)
(* C8.  The normalised score of every reduced projected sequence of a      *)
(* pathway is at most the score of the target aligned with itself.         *)
(***************************************************************************)
C8_TargetAttainsMaximum ==
    (pc = "done" /\ fn = "sequence_alignment")
        => /\ adherence.bound
           /\ RLeq(adherence.val, sequence_alignment(target, target).val)

C8_Witness ==
    /\ pc = "done"
    /\ fn = "sequence_alignment"
    /\ Len(target) >= 3
    /\ reduced_pcd_seq = target
    /\ adherence = Bound(sequence_alignment(target, target).val)

(***************************************************************************)
(* C9.  Exact-mode projection of a non-empty code list starts with the     *)
(* sentinel and adds one symbol for each observed code some step takes and *)
(* nothing for the others, so the match fraction is matched codes over     *)
(* observed codes, lies in [0,1] and is 0 exactly when no code matched.    *)
(***************************************************************************)
C9_FractionIsShareOfMatchedCodes ==
    (/\ BodyRan
     /\ fn \in {"seq_alignment_adherence", "generous_adherence"}
     /\ code_list # <<>>)
        => /\ pcd_seq[1] = "0"
           /\ Len(pcd_seq) - 1 = Cardinality(Matched(code_list, LastPathway))
           /\ frac = Rat(Cardinality(Matched(code_list, LastPathway)), Len(code_list))
           /\ RLeq(Zero, frac) /\ RLeq(frac, <<1, 1>>)
           /\ frac = Zero <=> Matched(code_list, LastPathway) = {}

(***************************************************************************)
(* C10.  The list handed to the projector holds every piece of the string  *)
(* between blanks in order, less only a trailing empty piece: the last     *)
(* code stays when the string does not end in a blank.                     *)
(***************************************************************************)
C10_OnlyTrailingEmptyPieceDropped ==
    BodyRan =>
        code_list = IF Split(procedure_cds)[Len(Split(procedure_cds))] = <<>>
                    THEN DropLast(Split(procedure_cds))
                    ELSE Split(procedure_cds)

====
